---- MODULE Spec2Model ----
(***************************************************************************)
(* A* Path Finder (src/app.py): find_path and the traffic block of the     *)
(* page script.                                                            *)
(*                                                                         *)
(* Units.  Coordinates are <<lat, lon>> pairs counted in steps of 0.005    *)
(* degree from (0, 0).  A distance is the whole number of decimetres (dm)  *)
(* nearest to the float the code holds; the float itself is any value      *)
(* within half a dm of it, and what the code derives from the float is     *)
(* every result one of those values gives.  Such a value is counted in     *)
(* sixths of a dm, the grid on which the boundaries of both round() calls  *)
(* fall.  The displayed distance is counted in hundredths of a km, times   *)
(* in minutes, the traffic factor in tenths.                               *)
(***************************************************************************)
EXTENDS Integers, Sequences, FiniteSets, TLC

VARIABLES
    nodes,          \* G: the node ids of the graph
    pos,            \* G.nodes[n]["y"], G.nodes[n]["x"] as <<lat, lon>>
    edges,          \* G: the edges, records [u, v, length] (a MultiDiGraph)
    adj,            \* G._adj: node -> its successors in insertion order
    start_coords,   \* find_path parameter, <<lat, lon>>
    goal_coords,    \* find_path parameter, <<lat, lon>>
    mode,           \* find_path parameter
    pc,             \* position in find_path / the page script
    start_node,     \* line 63
    goal_node,      \* line 64
    queue,          \* astar_path: the heap, records [f, cnt, node, dist, parent]
    c,              \* astar_path: the push counter
    enqueued,       \* astar_path: node -> cost of its best queue entry
    explored,       \* astar_path: node -> parent (None for the source)
    expansions,     \* history: node -> how many times it was expanded
    goal_dist,      \* astar_path: the cost popped with the goal
    route,          \* line 69: the node path
    total_distance, \* lines 75-79, to the nearest dm
    result,         \* the dict find_path returns
    current_hour,   \* line 233
    traffic_status, \* lines 237/240/243
    traffic_factor, \* lines 238/241/244, tenths
    adjusted_time   \* line 246

vars == <<nodes, pos, edges, adj, start_coords, goal_coords, mode, pc, start_node,
          goal_node, queue, c, enqueued, explored, expansions, goal_dist,
          route, total_distance, result, current_hour, traffic_status,
          traffic_factor, adjusted_time>>

(***************************************************************************)
(* Bounds of the checked input families.                                   *)
(***************************************************************************)
NumNodes == 4     \* node ids 1..NumNodes
MaxLen == 1       \* edge 'length' values 0..MaxLen (search family)
MaxEdges == 4     \* at most this many edges (search family)
LonMax == 4       \* query longitudes 0..LonMax (route family)
LatMax == 1       \* query latitudes 0..LatMax (route family)
MaxBase == 120    \* base times 0..MaxBase (traffic family)

None == 0         \* Python's None as a parent; node ids start at 1

(***************************************************************************)
(* Numeric helpers.                                                        *)
(***************************************************************************)
Abs(x) == IF x < 0 THEN -x ELSE x
Range(f) == {f[i] : i \in DOMAIN f}
Reverse(sq) == [i \in 1..Len(sq) |-> sq[Len(sq) + 1 - i]]

\* Python 3 round() of a value that is num/den exactly (num >= 0, den > 0):
\* to the nearest integer, a tie to the even neighbour.
PyRound(num, den) ==
    LET q == num \div den
        r == num % den
    IN  IF 2 * r < den THEN q
        ELSE IF 2 * r > den THEN q + 1
        ELSE IF q % 2 = 0 THEN q ELSE q + 1

\* Python 3 round() of a float computed for num/den (num >= 0, den > 0):
\* the nearest integer; at a tie of num/den the computed float is just
\* below, just above or on the tie, so either neighbour can be the result.
FloatRound(num, den) ==
    LET q == num \div den
        r == num % den
    IN  IF 2 * r < den THEN {q}
        ELSE IF 2 * r > den THEN {q + 1}
        ELSE {q, q + 1}

(***************************************************************************)
(* Distances.                                                              *)
(***************************************************************************)
\* Distance tables near (0, 0), entry [dlat + 1][dlon + 1] for a difference
\* of dlat = 0..3 and dlon = 0..10 coordinate steps of 0.005 degree: the
\* distance to the nearest dm.  Between latitudes 0 and 0.015 degree the
\* entry is the same wherever the pair lies and whichever way it points.
\* The geodesic on the WGS-84 ellipsoid (geopy.distance.distance):
GeodesicTable ==
    << <<0, 5566, 11132, 16698, 22264, 27830, 33396, 38962, 44528, 50094, 55660>>,
       <<5529, 7845, 12429, 17589, 22940, 28374, 33850, 39352, 44870, 50398, 55934>>,
       <<11057, 12379, 15690, 20027, 24859, 29946, 35179, 40500, 45880, 51300, 56747>>,
       <<16586, 17495, 19975, 23536, 27763, 32398, 37288, 42345, 47517, 52768, 58078>> >>
\* The haversine formula on a sphere of radius 6371009 m (osmnx):
HaversineTable ==
    << <<0, 5560, 11120, 16679, 22239, 27799, 33359, 38918, 44478, 50038, 55598>>,
       <<5560, 7863, 12432, 17581, 22923, 28349, 33819, 39313, 44824, 50346, 55875>>,
       <<11120, 12432, 15725, 20046, 24864, 29940, 35163, 40476, 45847, 51258, 56699>>,
       <<16679, 17581, 20046, 23588, 27799, 32419, 37296, 42342, 47503, 52744, 58046>> >>

\* geopy.distance.distance(a, b), in dm (.km is this over 10000)
GeodesicDm(a, b) == GeodesicTable[Abs(a[1] - b[1]) + 1][Abs(a[2] - b[2]) + 1]

\* the haversine metric of the ball tree ox.nearest_nodes queries, in dm
GreatCircleDm(a, b) == HaversineTable[Abs(a[1] - b[1]) + 1][Abs(a[2] - b[2]) + 1]

(***************************************************************************)
(* ox.nearest_nodes(G, X, Y): the nodes at the least great-circle distance *)
(* from (Y, X).  Which of several equally near nodes the tree reports is   *)
(* not specified by the library, so every one of them is a possible        *)
(* answer.                                                                 *)
(***************************************************************************)
\* variant: the nearest node by longitude alone
nearest_nodes_lon(N, P, coords) ==
    {n \in N : \A m \in N : Abs(P[n][2] - coords[2]) <= Abs(P[m][2] - coords[2])}

nearest_nodes(N, P, coords) ==
    {n \in N : \A m \in N : GreatCircleDm(P[n], coords) <= GreatCircleDm(P[m], coords)}

(***************************************************************************)
(* Graph access.                                                           *)
(***************************************************************************)
\* the successors of u
Succ(E, u) == {e.v : e \in {x \in E : x.u = u}}

\* the weight function of a multigraph: the least 'length' of the parallel
\* edges u -> v
EdgeWeight(E, u, v) ==
    LET ls == {e.length : e \in {x \in E : x.u = u /\ x.v = v}}
    IN  CHOOSE l \in ls : \A k \in ls : l <= k

(***************************************************************************)
(* nx.has_path(G, source, target): a breadth-first search along the edge   *)
(* directions finds the target, or runs out of nodes (NetworkXNoPath).     *)
(***************************************************************************)
RECURSIVE Bfs(_, _, _)
Bfs(E, seen, fringe) ==
    IF fringe = {} THEN seen
    ELSE LET nxt == UNION {Succ(E, u) : u \in fringe} \ seen
         IN  Bfs(E, seen \cup nxt, nxt)

\* variant: the source counts as reached only through a cycle
has_path_strict(E, source, target) == target \in Bfs(E, {}, {source})

\* variant: the search follows the edges in either direction
has_path_undirected(E, source, target) ==
    target \in Bfs(E \cup {[u |-> e.v, v |-> e.u, length |-> e.length] : e \in E},
                   {source}, {source})

has_path(E, source, target) == target \in Bfs(E, {source}, {source})

(***************************************************************************)
(* nx.astar_path(G, source, target, weight="length"): no heuristic is      *)
(* passed, so h = 0 and f = cost.                                          *)
(***************************************************************************)
\* heappop: the entry least by (f, cnt)
HeapMin(q) ==
    CHOOSE e \in q : \A o \in q : e.f < o.f \/ (e.f = o.f /\ e.cnt <= o.cnt)

\* variant: only the source is protected from a second expansion
SkipPoppedSourceOnly(expl, enq, cur) ==
    cur.node \in DOMAIN expl /\ expl[cur.node] = None

\* "if curnode in explored": a popped entry that is not expanded
SkipPopped(expl, enq, cur) ==
    /\ cur.node \in DOMAIN expl
    /\ \/ expl[cur.node] = None
       \/ enq[cur.node] < cur.dist

\* variant: a neighbour once enqueued is never given a better cost
SkipNeighborSeen(enq, nb, ncost) == nb \in DOMAIN enq

\* "if neighbor in enqueued: if qcost <= ncost: continue"
SkipNeighbor(enq, nb, ncost) ==
    nb \in DOMAIN enq /\ enq[nb] <= ncost

\* the for loop over G_succ[curnode].items(): nbs is the neighbours in the
\* order the dict holds them, st is [queue, c, enqueued]
RECURSIVE Relax(_, _, _, _)
Relax(E, cur, nbs, st) ==
    IF nbs = <<>> THEN st
    ELSE LET nb    == Head(nbs)
             ncost == cur.dist + EdgeWeight(E, cur.node, nb)
         IN  IF SkipNeighbor(st.enqueued, nb, ncost)
             THEN Relax(E, cur, Tail(nbs), st)
             ELSE Relax(E, cur, Tail(nbs),
                        [queue    |-> st.queue \cup
                                      {[f |-> ncost, cnt |-> st.c, node |-> nb,
                                        dist |-> ncost, parent |-> cur.node]},
                         c        |-> st.c + 1,
                         enqueued |-> (nb :> ncost) @@ st.enqueued])

\* the path from the popped goal entry back along explored, reversed
RECURSIVE PathTo(_, _)
PathTo(expl, node) ==
    IF node = None THEN <<>>
    ELSE Append(PathTo(expl, expl[node]), node)

\* variant: path.reverse() is left out
ReconstructPathUnreversed(expl, cur) ==
    <<cur.node>> \o Reverse(PathTo(expl, cur.parent))

ReconstructPath(expl, cur) == Append(PathTo(expl, cur.parent), cur.node)

(***************************************************************************)
(* Route building, lines 71-93.                                            *)
(***************************************************************************)
speeds == [car |-> 50, walk |-> 5, bike |-> 15]
Modes == {"car", "walk", "bike"}

\* line 72
RouteCoords(P, path) == [i \in 1..Len(path) |-> P[path[i]]]

\* lines 77-79, one term of the sum
SegmentDm(rc, i) == GeodesicDm(rc[i - 1], rc[i])

\* lines 75-79, for i in range(1, len(route_coords)): the dm counts that can
\* be nearest to total_distance once the segments up to coordinate i are
\* added.  The segment float is within half a dm of its table entry and the
\* running sum within half a dm of its nearest count, so a segment moves the
\* nearest count by its entry, give or take one; nothing is lost where the
\* segment or the running sum is exactly 0.
RECURSIVE SumSegments(_, _)
SumSegments(rc, i) ==
    IF i < 2 THEN {0}
    ELSE LET seg == SegmentDm(rc, i)
         IN  UNION {{t + seg + e :
                       e \in IF seg = 0 \/ t = 0 THEN {0} ELSE {-1, 0, 1}} :
                    t \in SumSegments(rc, i - 1)}

\* variant: the loop starts one segment late, range(2, len(route_coords))
TotalDistanceFromSecond(rc) ==
    IF Len(rc) < 2 THEN {0} ELSE SumSegments(Tail(rc), Len(rc) - 1)

\* total_distance after the loop: the dm counts that can be nearest to it
TotalDistanceDm(rc) == SumSegments(rc, Len(rc))

\* the values total_distance can have when dm is the count nearest to it,
\* in sixths of a dm
FloatsNear(dm) == {x \in (6 * dm - 3)..(6 * dm + 3) : x >= 0}

\* line 90: round(total_distance, 2), in hundredths of a km, for a
\* total_distance of x sixths of a dm; the possible results
DisplayDistance(x) == FloatRound(x, 600)

\* variant: the time is taken from the displayed, 2-decimal distance
TimeDistanceRounded(x) == 600 * PyRound(x, 600)

\* what lines 85-86 and 91 take the distance to be
TimeDistance(x) == x

\* lines 85-86, 91: round(total_distance / speeds[mode] * 60) for a
\* total_distance of x sixths of a dm, x / 60000 km; the possible results
TimeMinutes(x, m) == FloatRound(TimeDistance(x), 1000 * speeds[m])

NoResult  == [success |-> FALSE, route |-> <<>>, distance |-> 0,
              time_minutes |-> 0, error |-> ""]
Failure   == [success |-> FALSE, route |-> <<>>, distance |-> 0,
              time_minutes |-> 0,
              error |-> "No path found between these points."]
Success(rc, distance, time_minutes) ==
             [success |-> TRUE, route |-> rc, distance |-> distance,
              time_minutes |-> time_minutes, error |-> ""]

(***************************************************************************)
(* Traffic block, lines 232-246.                                           *)
(***************************************************************************)
\* variant: the evening rush lasts an hour longer
RushHoursLate == {7, 8, 9, 16, 17, 18, 19}

RushHours == {7, 8, 9, 16, 17, 18}
MediumHours == {10, 11, 14, 15, 19, 20}

TrafficStatus(h) ==
    IF h \in RushHours THEN "Heavy"
    ELSE IF h \in MediumHours THEN "Moderate"
    ELSE "Light"

TrafficFactor(h) ==
    IF h \in RushHours THEN 15
    ELSE IF h \in MediumHours THEN 12
    ELSE 10

\* variant: int() in place of round()
AdjustedTimeTruncated(base, f) == (base * f) \div 10

\* line 246: round(result["time_minutes"] * traffic_factor)
AdjustedTime(base, f) == PyRound(base * f, 10)

(***************************************************************************)
(* Actions of find_path.                                                   *)
(***************************************************************************)
traffic_vars == <<current_hour, traffic_status, traffic_factor, adjusted_time>>
graph_vars == <<nodes, pos, edges, adj, start_coords, goal_coords, mode>>
search_vars == <<queue, c, enqueued, explored, expansions, goal_dist>>

\* lines 63-64
Snap ==
    /\ pc = "snap"
    /\ start_node' \in nearest_nodes(nodes, pos, start_coords)
    /\ goal_node' \in nearest_nodes(nodes, pos, goal_coords)
    /\ pc' = "has_path"
    /\ UNCHANGED <<graph_vars, search_vars, route, total_distance, result,
                   traffic_vars>>

\* line 67 true, and astar_path up to its loop
HasPath ==
    /\ pc = "has_path"
    /\ has_path(edges, start_node, goal_node)
    /\ queue' = {[f |-> 0, cnt |-> 0, node |-> start_node, dist |-> 0,
                  parent |-> None]}
    /\ c' = 1
    /\ enqueued' = <<>>
    /\ explored' = <<>>
    /\ pc' = "astar"
    /\ UNCHANGED <<graph_vars, start_node, goal_node, expansions, goal_dist,
                   route, total_distance, result, traffic_vars>>

\* line 67 false, line 95
NoPath ==
    /\ pc = "has_path"
    /\ ~has_path(edges, start_node, goal_node)
    /\ result' = Failure
    /\ pc' = "done"
    /\ UNCHANGED <<graph_vars, start_node, goal_node, search_vars, route,
                   total_distance, traffic_vars>>

\* one iteration of astar_path's "while queue" loop
AStarStep ==
    /\ pc = "astar"
    /\ IF queue = {}
       THEN \* raise NetworkXNoPath: find_path does not catch it
            /\ pc' = "raised"
            /\ UNCHANGED <<search_vars, route>>
       ELSE LET cur == HeapMin(queue)
                rest == queue \ {cur}
            IN  IF cur.node = goal_node
                THEN /\ route' = ReconstructPath(explored, cur)
                     /\ goal_dist' = cur.dist
                     /\ queue' = rest
                     /\ pc' = "build"
                     /\ UNCHANGED <<c, enqueued, explored, expansions>>
                ELSE IF SkipPopped(explored, enqueued, cur)
                THEN /\ queue' = rest
                     /\ pc' = "astar"
                     /\ UNCHANGED <<c, enqueued, explored, expansions,
                                    goal_dist, route>>
                ELSE LET st == Relax(edges, cur, adj[cur.node],
                                     [queue |-> rest, c |-> c,
                                      enqueued |-> enqueued])
                     IN  /\ explored' = (cur.node :> cur.parent) @@ explored
                         /\ expansions' =
                                [expansions EXCEPT ![cur.node] = @ + 1]
                         /\ queue' = st.queue
                         /\ c' = st.c
                         /\ enqueued' = st.enqueued
                         /\ pc' = "astar"
                         /\ UNCHANGED <<goal_dist, route>>
    /\ UNCHANGED <<graph_vars, start_node, goal_node, total_distance, result,
                   traffic_vars>>

\* lines 71-93
Build ==
    /\ pc = "build"
    /\ LET rc == RouteCoords(pos, route)
       IN  \E dm \in TotalDistanceDm(rc) : \E x \in FloatsNear(dm) :
               /\ total_distance' = dm
               /\ \E distance \in DisplayDistance(x),
                     time_minutes \in TimeMinutes(x, mode) :
                     result' = Success(rc, distance, time_minutes)
    /\ pc' = "done"
    /\ UNCHANGED <<graph_vars, start_node, goal_node, search_vars, route,
                   traffic_vars>>

Next == Snap \/ HasPath \/ NoPath \/ AStarStep \/ Build

\* lines 232-246, reached when result["success"] holds (line 205)
Traffic ==
    /\ pc = "done"
    /\ result.success
    /\ \E h \in 0..23 :
          /\ current_hour' = h
          /\ traffic_status' = TrafficStatus(h)
          /\ traffic_factor' = TrafficFactor(h)
          /\ adjusted_time' = AdjustedTime(result.time_minutes, TrafficFactor(h))
    /\ pc' = "shown"
    /\ UNCHANGED <<graph_vars, start_node, goal_node, search_vars, route,
                   total_distance, result>>

NextTraffic == Traffic

(***************************************************************************)
(* Input families.                                                         *)
(***************************************************************************)
Nodes == 1..NumNodes

\* the subsets of S with at most k elements
RECURSIVE UpTo(_, _)
UpTo(S, k) ==
    IF k = 0 THEN {{}}
    ELSE LET F == UpTo(S, k - 1)
         IN  F \cup {T \cup {x} : T \in F, x \in S}

\* the orderings of a finite set
Perms(S) ==
    {sq \in [1..Cardinality(S) -> S] :
        \A i, j \in 1..Cardinality(S) : sq[i] = sq[j] => i = j}

\* every order in which the edges E can have been added to a graph of the
\* nodes 1..n, as far as the search sees it: per node, an ordering of its
\* successors
RECURSIVE AdjOrders(_, _)
AdjOrders(E, n) ==
    IF n = 0 THEN {<<>>}
    ELSE {Append(f, sq) : f \in AdjOrders(E, n - 1), sq \in Perms(Succ(E, n))}

\* node layouts
Layouts == {"line", "zigzag", "paired", "dogleg"}
Layout(l, N) ==
    [n \in N |->
        IF l = "line" THEN <<0, 2 * (n - 1)>>
        ELSE IF l = "zigzag"
             THEN (IF n % 2 = 1 THEN <<0, n - 1>> ELSE <<1, n + 2>>)
        ELSE IF l = "dogleg"
             THEN (IF n = 1 THEN <<0, 0>> ELSE <<1, n + 4>>)
        ELSE <<0, 2 * ((n - 1) \div 2)>>]

\* search family: a street pattern of forward links, shortcuts and one
\* link back to the first node
StreetPairs ==
    {<<n, n + 1>> : n \in 1..(NumNodes - 1)}
        \cup {<<n, n + 2>> : n \in 1..(NumNodes - 2)}
        \cup {<<NumNodes - 1, 1>>}
EdgeSlots ==
    {[u |-> p[1], v |-> p[2], length |-> l] : p \in StreetPairs, l \in 0..MaxLen}
SearchGraphs == UpTo(EdgeSlots, MaxEdges)

InitCommon ==
    /\ pc = "snap"
    /\ start_node = None
    /\ goal_node = None
    /\ queue = {}
    /\ c = 0
    /\ enqueued = <<>>
    /\ explored = <<>>
    /\ expansions = [n \in Nodes |-> 0]
    /\ goal_dist = 0
    /\ route = <<>>
    /\ total_distance = 0
    /\ result = NoResult
    /\ current_hour = 0
    /\ traffic_status = ""
    /\ traffic_factor = 10
    /\ adjusted_time = 0

Init ==
    /\ nodes = Nodes
    /\ pos = Layout("line", Nodes)
    /\ edges \in SearchGraphs
    /\ adj \in AdjOrders(edges, NumNodes)
    /\ start_coords = pos[1]
    /\ goal_coords \in {pos[1], pos[NumNodes]}
    /\ mode = "car"
    /\ InitCommon

\* find_path over the search family
Spec == Init /\ [][Next]_vars

\* route family: the first n nodes in one of the layouts, joined into a
\* chain one way, both ways or not at all by edges of length 1100 (m) added
\* in any order, with the two query points anywhere on the grid and every
\* mode
Chain(n, back) ==
    {[u |-> k, v |-> k + 1, length |-> 1100] : k \in 1..(n - 1)}
        \cup (IF back
              THEN {[u |-> k + 1, v |-> k, length |-> 1100] : k \in 1..(n - 1)}
              ELSE {})
Grid == (0..LatMax) \X (0..LonMax)

InitRoute ==
    /\ \E n \in Nodes, l \in Layouts :
          /\ nodes = 1..n
          /\ pos = Layout(l, 1..n)
          /\ edges \in {{}, Chain(n, FALSE), Chain(n, TRUE)}
          /\ adj \in AdjOrders(edges, n)
    /\ start_coords \in Grid
    /\ goal_coords \in Grid
    /\ mode \in Modes
    /\ InitCommon

SpecRoute == InitRoute /\ [][Next]_vars

\* traffic family: the page after find_path returned a success whose
\* time_minutes is any of 0..MaxBase; the block reads nothing else of it
InitTraffic ==
    /\ nodes = {1}
    /\ pos = Layout("line", {1})
    /\ edges = {}
    /\ adj = <<<<>>>>
    /\ start_coords = <<0, 0>>
    /\ goal_coords = <<0, 0>>
    /\ mode = "walk"
    /\ pc = "done"
    /\ start_node = 1
    /\ goal_node = 1
    /\ queue = {}
    /\ c = 1
    /\ enqueued = <<>>
    /\ explored = <<>>
    /\ expansions = [n \in Nodes |-> 0]
    /\ goal_dist = 0
    /\ route = <<1>>
    /\ total_distance = 0
    /\ \E t \in 0..MaxBase :
          result = [success |-> TRUE, route |-> <<pos[1]>>, distance |-> 0,
                    time_minutes |-> t, error |-> ""]
    /\ current_hour = 0
    /\ traffic_status = ""
    /\ traffic_factor = 10
    /\ adjusted_time = 0

SpecTraffic == InitTraffic /\ [][NextTraffic]_vars

(***************************************************************************)
(* Properties.                                                             *)
(***************************************************************************)
\* some edge leads from u to v
Joined(E, u, v) == \E e \in E : e.u = u /\ e.v = v

\* the least 'length' among the edges from u to v
MinLength(E, u, v) ==
    LET ls == {e.length : e \in {x \in E : x.u = u /\ x.v = v}}
    IN  CHOOSE l \in ls : \A k \in ls : l <= k

\* the paths without a repeated node that extend p along the edges
RECURSIVE Extend(_, _)
Extend(E, p) ==
    {p} \cup UNION {Extend(E, Append(p, e.v)) :
                      e \in {x \in E : x.u = p[Len(p)] /\ x.v \notin Range(p)}}

\* every path without a repeated node from s to g
PathsBetween(E, s, g) == {p \in Extend(E, <<s>>) : p[Len(p)] = g}

\* the summed least lengths along a node path
RECURSIVE WalkLength(_, _)
WalkLength(E, p) ==
    IF Len(p) < 2 THEN 0
    ELSE MinLength(E, p[1], p[2]) + WalkLength(E, Tail(p))

Succeeded == pc = "done" /\ result.success
Failed == pc = "done" /\ ~result.success

\* C1: when find_path succeeds, the summed 'length' along the returned node
\* path (the least length of parallel edges) equals the cost the search
\* recorded for the goal and is at most the summed length of every other
\* path from the start node to the goal node.
C1_Optimal ==
    Succeeded =>
        /\ WalkLength(edges, route) = goal_dist
        /\ \A p \in PathsBetween(edges, start_node, goal_node) :
              goal_dist <= WalkLength(edges, p)

\* a success over a pair of parallel edges of different lengths, on a route
\* of three or more nodes
C1_Witness ==
    /\ Succeeded
    /\ Len(route) >= 3
    /\ \E i \in 1..(Len(route) - 1) : \E e, d \in edges :
          /\ e.u = route[i] /\ e.v = route[i + 1]
          /\ d.u = route[i] /\ d.v = route[i + 1]
          /\ e.length < d.length

\* C2: find_path returns the failure outcome exactly when no sequence of
\* edges followed in their direction leads from the start node to the goal
\* node, and a success with a route, a distance and a time whenever one
\* does; it never leaves by the search's exception.
C2_FailureIffUnreachable ==
    LET connected == PathsBetween(edges, start_node, goal_node) # {}
    IN  /\ pc # "raised"
        /\ pc \in {"astar", "build"} => connected
        /\ pc = "done" =>
              /\ result = Failure <=> ~connected
              /\ connected =>
                    /\ result.success
                    /\ Len(result.route) >= 1
                    /\ result.distance >= 0
                    /\ result.time_minutes >= 0

\* a failure although an edge leaves the goal side towards the start: the
\* two are joined, but not in the direction of travel
C2_Witness ==
    /\ Failed
    /\ result = Failure
    /\ \E e \in edges : e.v = start_node
    /\ \E e \in edges : e.v = goal_node

\* C10: on success the route holds one coordinate per path node in path
\* order, from the snapped start node to the snapped goal node, consecutive
\* nodes are joined by an edge in the direction of travel, and no node
\* appears twice.
C10_RouteShape ==
    Succeeded =>
        /\ Len(result.route) >= 1
        /\ Len(result.route) = Len(route)
        /\ \A i \in 1..Len(route) : result.route[i] = pos[route[i]]
        /\ route[1] = start_node
        /\ route[Len(route)] = goal_node
        /\ result.route[1] = pos[start_node]
        /\ result.route[Len(route)] = pos[goal_node]
        /\ \A i \in 1..(Len(route) - 1) : Joined(edges, route[i], route[i + 1])
        /\ \A i, j \in 1..Len(route) : route[i] = route[j] => i = j

\* a route of four nodes one of whose steps has no edge back
C10_Witness ==
    /\ Succeeded
    /\ Len(result.route) >= 4
    /\ \E i \in 1..(Len(route) - 1) : ~Joined(edges, route[i + 1], route[i])

\* C3: when both coordinates snap to the same node, find_path returns a
\* success with a single-element route, distance 0 and time 0, in every
\* mode and whether or not the node has edges.
C3_SameNode ==
    /\ pc # "raised"
    /\ (pc = "done" /\ start_node = goal_node) =>
          /\ result.success
          /\ Len(result.route) = 1
          /\ result.route[1] = pos[start_node]
          /\ total_distance = 0
          /\ result.distance = 0
          /\ result.time_minutes = 0

\* two different coordinates snapped to one node without edges, by bike
C3_Witness ==
    /\ Succeeded
    /\ start_node = goal_node
    /\ start_coords # goal_coords
    /\ edges = {}
    /\ Cardinality(nodes) >= 2
    /\ mode = "bike"

Snapped == pc # "snap"
Nearest(n, coords) ==
    /\ n \in nodes
    /\ \A m \in nodes : GreatCircleDm(pos[n], coords) <= GreatCircleDm(pos[m], coords)
LowestOfTies(n, coords) ==
    \A m \in nodes :
        GreatCircleDm(pos[m], coords) = GreatCircleDm(pos[n], coords) => n <= m

\* C4 (what holds): the node snapping returns for the start and for the goal
\* is a node of the graph and no node of the graph is strictly closer to the
\* input coordinate under the great-circle distance.
C4_Nearest ==
    Snapped => Nearest(start_node, start_coords) /\ Nearest(goal_node, goal_coords)

\* C4 (as the specification states it): moreover, among equally close nodes
\* the one with the lowest node id is returned.
C4_Original ==
    Snapped =>
        /\ Nearest(start_node, start_coords) /\ Nearest(goal_node, goal_coords)
        /\ LowestOfTies(start_node, start_coords)
        /\ LowestOfTies(goal_node, goal_coords)

\* a start coordinate that is no node's, with two nodes equally near
C4_Witness ==
    /\ Snapped
    /\ Cardinality(nodes) >= 3
    /\ start_coords \notin Range(pos)
    /\ \E m \in nodes \ {start_node} :
          /\ pos[m] # pos[start_node]
          /\ GreatCircleDm(pos[m], start_coords)
                = GreatCircleDm(pos[start_node], start_coords)

\* C5: every hour 0..23 has exactly one category and multiplier: Heavy and
\* 1.5 iff h is in {7,8,9,16,17,18}, Moderate and 1.2 iff h is in
\* {10,11,14,15,19,20}, Light and 1.0 for every other hour, whatever the
\* base time.
C5_TrafficTable ==
    pc = "shown" =>
        /\ current_hour \in 0..23
        /\ <<traffic_status, traffic_factor>>
              \in {<<"Heavy", 15>>, <<"Moderate", 12>>, <<"Light", 10>>}
        /\ traffic_status = "Heavy" <=> current_hour \in {7, 8, 9, 16, 17, 18}
        /\ traffic_status = "Moderate"
              <=> current_hour \in {10, 11, 14, 15, 19, 20}
        /\ traffic_status = "Light"
              <=> current_hour \in (0..6) \cup {12, 13} \cup (21..23)

\* hour 19, the first hour after the evening rush
C5_Witness ==
    /\ pc = "shown"
    /\ current_hour = 19
    /\ traffic_status = "Moderate"
    /\ traffic_factor = 12
    /\ result.time_minutes > 0

ClaimedFactor(h) ==
    IF h \in {7, 8, 9, 16, 17, 18} THEN 15
    ELSE IF h \in {10, 11, 14, 15, 19, 20} THEN 12 ELSE 10

\* C6: the adjusted time is the base time times the hour's multiplier,
\* rounded to the nearest integer; base 100 gives 150 at hour 8, 120 at hour
\* 11 and 100 at hour 2; it is never below the base time and equals it in
\* every Light hour.
C6_AdjustedTime ==
    pc = "shown" =>
        LET base == result.time_minutes
            f    == ClaimedFactor(current_hour)
        IN  /\ 2 * Abs(10 * adjusted_time - base * f) <= 10
            /\ adjusted_time >= base
            /\ f = 10 => adjusted_time = base
            /\ (base = 100 /\ current_hour = 8) => adjusted_time = 150
            /\ (base = 100 /\ current_hour = 11) => adjusted_time = 120
            /\ (base = 100 /\ current_hour = 2) => adjusted_time = 100

\* base 100 at hour 8
C6_Witness ==
    /\ pc = "shown"
    /\ result.time_minutes = 100
    /\ current_hour = 8
    /\ adjusted_time = 150

\* the sum of the distances between consecutive coordinates
RECURSIVE GeoSum(_)
GeoSum(rc) ==
    IF Len(rc) < 2 THEN 0 ELSE GeodesicDm(rc[1], rc[2]) + GeoSum(Tail(rc))

ClaimedSpeed == IF mode = "car" THEN 50 ELSE IF mode = "walk" THEN 5 ELSE 15

\* time_minutes is (d / speed) * 60 to the nearest integer, d the unrounded
\* sum of the segment distances: a value d (in sixths of a dm) within half a
\* dm of total_distance, itself within a dm per segment of the sum of the
\* table entries, has time_minutes for a nearest integer of d / (1000 speed)
TimeFromUnrounded ==
    /\ Abs(total_distance - GeoSum(result.route)) <= Len(result.route) - 1
    /\ \E d \in (6 * total_distance - 3)..(6 * total_distance + 3) :
          2 * Abs(1000 * ClaimedSpeed * result.time_minutes - d)
              <= 1000 * ClaimedSpeed

\* A(0,0), B(0,0.01), C(0,0.02), edges A-B and B-C of 1.1 km, from (0,0) to
\* (0,0.02) on foot
Scenario ==
    /\ nodes = {1, 2, 3}
    /\ pos = Layout("line", {1, 2, 3})
    /\ edges = Chain(3, TRUE)
    /\ start_coords = <<0, 0>>
    /\ goal_coords = <<0, 4>>
    /\ mode = "walk"

\* C7 (what holds): on success the base time is (d / speed) * 60 rounded to
\* the nearest integer, d the unrounded distance sum and speed 50, 5 or 15;
\* in the three-node scenario the path is [A,B,C], the distance is about
\* 2.2 km (2.23) and the base time is 27 minutes.
C7_BaseTime ==
    Succeeded =>
        /\ TimeFromUnrounded
        /\ Scenario =>
              /\ route = <<1, 2, 3>>
              /\ result.distance \in 215..225
              /\ result.distance = 223
              /\ result.time_minutes = 27

\* C7 (as the specification states it): the same, with a base time of 26
\* minutes (2.2 / 5 * 60) in the scenario.
C7_Original ==
    Succeeded =>
        /\ TimeFromUnrounded
        /\ Scenario =>
              /\ route = <<1, 2, 3>>
              /\ result.distance \in 215..225
              /\ result.time_minutes = 26

\* the scenario, finished
C7_Witness == Succeeded /\ Scenario /\ Len(result.route) = 3

\* C8: the total distance is the sum of the coordinate-to-coordinate
\* distances of consecutive path nodes (to within a dm per segment, the
\* resolution of the distances), the same for the path and for the path
\* reversed, whatever the stored edge lengths.
C8_DistanceFromCoordinates ==
    Succeeded =>
        /\ Abs(total_distance - GeoSum(result.route)) <= Len(result.route) - 1
        /\ GeoSum(Reverse(result.route)) = GeoSum(result.route)
        /\ total_distance \in TotalDistanceDm(Reverse(result.route))
        /\ TotalDistanceDm(Reverse(result.route))
              = TotalDistanceDm(result.route)

\* a route whose first and last segments differ in length and whose edge
\* lengths (m) sum to something else than its distance (dm)
C8_Witness ==
    /\ Succeeded
    /\ Len(result.route) >= 3
    /\ GeodesicDm(result.route[1], result.route[2])
          # GeodesicDm(result.route[Len(route) - 1], result.route[Len(route)])
    /\ Abs(total_distance - 10 * WalkLength(edges, route)) > Len(route)

\* the outcome of a finished search: a path from start to goal read off the
\* recorded predecessors, or the failure
SuccessOutcome ==
    /\ result.success
    /\ route # <<>>
    /\ route[1] = start_node
    /\ route[Len(route)] = goal_node
    /\ \A i \in 1..(Len(route) - 2) : explored[route[i + 1]] = route[i]
    /\ Len(route) >= 2 => explored[route[1]] = None
FailureOutcome ==
    /\ result = Failure
    /\ route = <<>>
    /\ PathsBetween(edges, start_node, goal_node) = {}

\* the ordered node pairs joined by an edge
JoinedPairs == {<<e.u, e.v>> : e \in edges}

\* a bound on the steps find_path has left: each pass of the search loop
\* pops one entry, and an entry is pushed at most once per joined pair
StepsLeft ==
    IF pc = "snap" THEN Cardinality(JoinedPairs) + 5
    ELSE IF pc = "has_path" THEN Cardinality(JoinedPairs) + 4
    ELSE IF pc = "astar"
         THEN 2 + (1 + Cardinality(JoinedPairs) - c) + Cardinality(queue)
    ELSE IF pc = "build" THEN 1
    ELSE 0

C9_Safe ==
    /\ pc # "raised"
    /\ \A n \in Nodes : expansions[n] <= 1
    /\ pc = "astar" => c <= 1 + Cardinality(JoinedPairs)
    /\ pc \in {"snap", "has_path", "astar", "build", "done"}
    /\ pc = "snap" => /\ nearest_nodes(nodes, pos, start_coords) # {}
                      /\ nearest_nodes(nodes, pos, goal_coords) # {}
    /\ pc = "has_path" => has_path(edges, start_node, goal_node) \in BOOLEAN
    /\ pc = "astar" => queue # {}
    /\ pc = "build" =>
          /\ Range(route) \subseteq nodes
          /\ \E dm \in TotalDistanceDm(RouteCoords(pos, route)) :
                \E x \in FloatsNear(dm) :
                    DisplayDistance(x) # {} /\ TimeMinutes(x, mode) # {}
    /\ pc = "done" => (SuccessOutcome /\ ~FailureOutcome)
                         \/ (FailureOutcome /\ ~SuccessOutcome)

\* C9: the search always terminates (short of the end the guard of a step
\* holds, the search loop never finds its queue empty, and every step lowers
\* a bound on the steps left), it ends in exactly one of
\* success (a path from start to goal reconstructed from the recorded
\* predecessors) and NoPathFound, and no node is expanded a second time.
C9_Terminates == []C9_Safe /\ [][StepsLeft' < StepsLeft]_vars

\* a finished search that popped and dropped an entry of a node already
\* expanded
C9_Witness ==
    /\ Succeeded
    /\ Len(route) >= 3
    /\ c - Cardinality(queue) - Cardinality(DOMAIN explored) - 1 >= 1

====
